---- MODULE Spec2Model ----
(***************************************************************************)
(* The persistent BLE connection registry of main.py (BLEConnectionManager) *)
(* and the connect-by-name orchestrator built on it, as a state machine.    *)
(*                                                                          *)
(* Scheduling is asyncio's: one thread, tasks switch only where a coroutine *)
(* really suspends.  An `async with` on a free asyncio.Lock does not        *)
(* suspend, and nothing is awaited inside any `async with _global_lock`     *)
(* block, so the registry-wide lock is never contended; the liveness query  *)
(* (client.is_connected) is read as a property.  The suspension points are  *)
(* therefore: the scan, a wait on a busy device lock, client.connect() and  *)
(* client.disconnect().  One action is one run of a task from one           *)
(* suspension point to the next.  The hand-over of a call's first run to    *)
(* the event loop (pc "cp_call", "d_call") is a scheduling point as well.   *)
(*                                                                          *)
(* The streaming session (ws_ble_ppg) suspends in websocket.accept(), in    *)
(* client.read_gatt_char() and in asyncio.sleep(); its peer may close the   *)
(* transport at any time after the session was opened.                      *)
(***************************************************************************)
EXTENDS Integers, Sequences, FiniteSets

\* ----------------------------------------------------------------- bounds
NumTasks == 3        \* registry requests (asyncio tasks) served concurrently
NumNameTasks == 2    \* requests served when one of them connects by name
NumAddr == 2         \* device addresses the registry may be asked about
MaxScan == 2         \* longest scan result handed to the orchestrator
MaxRankScan == 4     \* longest scan result handed to the ranking alone
NumStreamTasks == 2  \* registry requests served beside a streaming session
WinLen == 2          \* samples in one raw window (64 in struct.unpack)
MaxCycles == 3       \* read cycles a streaming session is followed for
NumLiveTasks == 2    \* registry requests followed to their return

Task == 1..NumTasks
NameTask == 1..NumNameTasks
Addr == 1..NumAddr
StreamTask == 1..NumStreamTasks
LiveTask == 1..NumLiveTasks

\* An absent dictionary entry / a free lock / Python's None for an RSSI.
NoEntry == 0
NoTask == 0
NoRssi == 1
\* rssi_sort_key's stand-in for an unknown RSSI.
RssiDefault == -9999
\* Signal strengths a scan may report: to the ranking alone, and to the
\* orchestrator running against the registry (where only the order of the
\* candidates matters).
RssiVals == {-40, -55, -70, NoRssi}
ScanRssi == {-40}
\* Sample values a characteristic read may deliver (uint16 in the code).
Sample == {0, 1}
\* Python's None for last_arr: a raw window is never empty.
NoArr == <<>>

VARIABLES
    connections,          \* BLEConnectionManager._connections: address -> entry
    conns,                \* every ManagedConnection created so far (the heap)
    global_lock,          \* holder of BLEConnectionManager._global_lock
    pc,                   \* where each task is suspended
    op,                   \* the endpoint each task serves
    address,              \* the address of the call a task is in
    managed,              \* the local `managed` of the call a task is in
    was,                  \* disconnect's local `was`
    ret,                  \* what the task's last registry call returned
    devices,              \* connect_persistent_by_name: the scan result
    matches,              \* connect_persistent_by_name: ranked matches
    attempted_addresses,  \* connect_persistent_by_name: addresses tried
    errors,               \* connect_persistent_by_name: captured errors
    response,             \* connect_persistent_by_name: the outcome returned
    connectCalls,         \* client.connect() invocations, per address
    disconnectCalls,      \* client.disconnect() invocations, per address
    addrs,                \* disconnect_all: the snapshot of tracked addresses
    addr_idx,             \* disconnect_all: iterations of its loop begun
    quiet,                \* disconnect_all began with no connect in flight
    ws_pc,                \* ws_ble_ppg: where the session is suspended
    ws_address,           \* ws_ble_ppg: the address streamed from
    ws_open,              \* the peer has not closed the transport
    client,               \* ws_ble_ppg: the handle fetched by get_client
    last_arr,             \* ws_ble_ppg: the previous raw window
    aggregated,           \* ws_ble_ppg: the aggregated buffer
    prev_len,             \* ws_ble_ppg: the boundary marker
    sent,                 \* messages delivered to the peer, in order
    reads,                \* read_gatt_char calls the session has issued
    reads_at_close        \* `reads` when the peer closed the transport

taskLocals == <<devices, matches, attempted_addresses, errors, response>>

\* disconnect_all's locals.
allLocals == <<addrs, addr_idx, quiet>>

streamVars == <<ws_pc, ws_address, ws_open, client, last_arr, aggregated,
                prev_len, sent, reads, reads_at_close>>

vars == <<connections, conns, global_lock, pc, op, address, managed, was, ret,
          devices, matches, attempted_addresses, errors, response,
          connectCalls, disconnectCalls, addrs, addr_idx, quiet,
          ws_pc, ws_address, ws_open, client, last_arr, aggregated,
          prev_len, sent, reads, reads_at_close>>

\* ------------------------------------------------------------ scan results
Device == [address : Nat, rssi : RssiVals, match : BOOLEAN]

RECURSIVE ScansOfLen(_, _, _, _)
\* Scan results of n devices with addresses in A, strengths in R, and
\* "the name equals the target" (dname == target, line 334) in M.
ScansOfLen(n, A, R, M) ==
    IF n = 0 THEN {<<>>}
    ELSE {Append(s, [address |-> a, rssi |-> r, match |-> m]) :
            s \in ScansOfLen(n - 1, A, R, M), a \in A, r \in R, m \in M}

DistinctAddresses(s) ==
    \A i, j \in 1..Len(s) : i # j => s[i].address # s[j].address

\* What BleakScanner.discover may hand to the orchestrator: every device
\* found carries the target name.
Scans ==
    {s \in UNION {ScansOfLen(n, Addr, ScanRssi, {TRUE}) : n \in 0..MaxScan} :
        DistinctAddresses(s)}

RECURSIVE RankScansOfLen(_)
\* Scan results for the ranking: device i of the scan has address i.
RankScansOfLen(n) ==
    IF n = 0 THEN {<<>>}
    ELSE {Append(s, [address |-> n, rssi |-> r, match |-> m]) :
            s \in RankScansOfLen(n - 1), r \in RssiVals, m \in BOOLEAN}

RankScans == UNION {RankScansOfLen(n) : n \in 0..MaxRankScan}

\* ------------------------------------------------------------------ ranking
\* A key that ranks the weakest signal first.
RssiSortKeyAscending(dev) ==
    <<dev.rssi = NoRssi,
      IF dev.rssi # NoRssi THEN dev.rssi ELSE RssiDefault>>

\* rssi_sort_key (lines 342-344): (rssi is None, -(rssi or -9999)).
RssiSortKey(dev) ==
    <<dev.rssi = NoRssi,
      -(IF dev.rssi # NoRssi THEN dev.rssi ELSE RssiDefault)>>

\* Python's tuple order on such keys; False < True.
KeyLess(k1, k2) ==
    \/ ~k1[1] /\ k2[1]
    \/ k1[1] = k2[1] /\ k1[2] < k2[2]

\* Insert x behind every element whose key is not greater than x's.
InsertByKey(sorted, x) ==
    LET later == {i \in 1..Len(sorted) :
                    KeyLess(RssiSortKey(x), RssiSortKey(sorted[i]))}
        at == IF later = {} THEN Len(sorted) + 1
              ELSE CHOOSE i \in later : \A j \in later : i <= j
    IN  SubSeq(sorted, 1, at - 1) \o <<x>> \o SubSeq(sorted, at, Len(sorted))

RECURSIVE SortByKey(_)
\* list.sort(key=rssi_sort_key) (line 346): a stable sort.
SortByKey(s) ==
    IF s = <<>> THEN <<>>
    ELSE InsertByKey(SortByKey(SubSeq(s, 1, Len(s) - 1)), s[Len(s)])

\* The filter of lines 331-335.
NameMatches(devs) == SelectSeq(devs, LAMBDA d : d.match)

\* ----------------------------------------------------------------- registry
\* ManagedConnection (lines 102-112) with its client's state and its lock's.
NewManaged(a) ==
    [address |-> a, is_connected |-> FALSE, holder |-> NoTask,
     waiters |-> <<>>]

\* A lookup that ignores its key.
GetFirst(reg, a) == reg[1]

\* self._connections.get(address)
Get(reg, a) == reg[a]

\* A cleanup that forgets to remove the entry.
PopNothing(reg, a) == reg

\* self._connections.pop(address, None)
Pop(reg, a) == [reg EXCEPT ![a] = NoEntry]

\* BLEConnectionManager.is_connected (lines 126-142).
IsConnected(reg, cs, a) ==
    LET m == Get(reg, a) IN
    IF m = NoEntry THEN FALSE ELSE cs[m].is_connected

\* get_connections (lines 144-147).
GetConnections == {a \in Addr : connections[a] # NoEntry}

\* A release that leaves the lock with its holder.
ReleaseKeepsHolder(cs, m) == cs

\* asyncio.Lock.release: the first waiter, if any, is the next holder.
Release(cs, m) ==
    IF cs[m].waiters = <<>>
    THEN [cs EXCEPT ![m].holder = NoTask]
    ELSE [cs EXCEPT ![m].holder = Head(cs[m].waiters),
                    ![m].waiters = Tail(cs[m].waiters)]

\* asyncio.Lock.acquire does not suspend on a free lock nobody waits for.
LockFree(c) == c.holder = NoTask /\ c.waiters = <<>>

\* A block that still holds the registry lock when it is left.
RegistryLockKept(t) == t

\* `async with self._global_lock` (lines 131, 146, 160, 180, 191, 205, 221):
\* the holder of the registry lock once task t has left the block.
RegistryLockAfter(t) == NoTask

\* list(self._connections.keys()) (line 147): the tracked addresses in
\* insertion order, which is the order in which their entries were created.
Keys(reg) ==
    LET S == {a \in Addr : reg[a] # NoEntry} IN
    [i \in 1..Cardinality(S) |->
        CHOOSE a \in S : Cardinality({b \in S : reg[b] < reg[a]}) = i - 1]

NoResponse ==
    [kind |-> "none", address |-> NoEntry, attempted |-> <<>>,
     errors |-> <<>>]

Init ==
    /\ connections = [a \in Addr |-> NoEntry]
    /\ conns = <<>>
    /\ global_lock = NoTask
    /\ pc = [t \in Task |-> "idle"]
    /\ op = [t \in Task |-> "none"]
    /\ address = [t \in Task |-> NoEntry]
    /\ managed = [t \in Task |-> NoEntry]
    /\ was = [t \in Task |-> FALSE]
    /\ ret = [t \in Task |-> "none"]
    /\ devices = [t \in Task |-> <<>>]
    /\ matches = [t \in Task |-> <<>>]
    /\ attempted_addresses = [t \in Task |-> <<>>]
    /\ errors = [t \in Task |-> <<>>]
    /\ response = [t \in Task |-> NoResponse]
    /\ connectCalls = [a \in Addr |-> 0]
    /\ disconnectCalls = [a \in Addr |-> 0]
    /\ addrs = [t \in Task |-> <<>>]
    /\ addr_idx = [t \in Task |-> 0]
    /\ quiet = [t \in Task |-> FALSE]
    /\ ws_pc = "idle"
    /\ ws_address = NoEntry
    /\ ws_open = FALSE
    /\ client = NoEntry
    /\ last_arr = NoArr
    /\ aggregated = NoArr
    /\ prev_len = 0
    /\ sent = <<>>
    /\ reads = 0
    /\ reads_at_close = 0

\* ------------------------------------------------- connect_persistent_by_name
\* An entry of the `errors` list (lines 371 and 373).
ErrorEntry(a, r) ==
    [address |-> a,
     kind |-> IF r = "raise" THEN "exception" ELSE "not_connected"]

\* A loop that goes on to the next candidate after a success as well.
LoopVerdictNeverReturns(r) == "continue"

\* What the loop does with the outcome of one candidate (lines 355-373):
\* `if ok: return`, otherwise record the error and go on.
LoopVerdict(r) == IF r = "true" THEN "return" ELSE "continue"

\* The `for dev in matches` loop once connect_persistent has returned r to
\* task t (lines 352-381).
ByNameContinue(t, r) ==
    LET n == Len(attempted_addresses[t])
        verdict == LoopVerdict(r)
        errs == IF r = "true" THEN errors[t]
                ELSE Append(errors[t], ErrorEntry(address[t], r))
    IN  /\ ret' = [ret EXCEPT ![t] = r]
        /\ UNCHANGED <<devices, matches>>
        /\ IF verdict = "return"
           THEN /\ response' = [response EXCEPT ![t] =
                       [kind |-> "success", address |-> address[t],
                        attempted |-> attempted_addresses[t],
                        errors |-> errors[t]]]
                /\ pc' = [pc EXCEPT ![t] = "done"]
                /\ UNCHANGED <<address, attempted_addresses, errors>>
           ELSE IF n < Len(matches[t])
           THEN /\ address' = [address EXCEPT ![t] = matches[t][n + 1].address]
                /\ attempted_addresses' = [attempted_addresses EXCEPT ![t] =
                       Append(@, matches[t][n + 1].address)]
                /\ errors' = [errors EXCEPT ![t] = errs]
                /\ pc' = [pc EXCEPT ![t] = "cp_call"]
                /\ UNCHANGED response
           ELSE /\ response' = [response EXCEPT ![t] =
                       [kind |-> "failed", address |-> NoEntry,
                        attempted |-> attempted_addresses[t],
                        errors |-> errs]]
                /\ errors' = [errors EXCEPT ![t] = errs]
                /\ pc' = [pc EXCEPT ![t] = "done"]
                /\ UNCHANGED <<address, attempted_addresses>>

\* An orchestrator without the `except` of lines 372-373: a raising
\* candidate ends the request.
CPReturnRaiseEscapes(t, r) ==
    IF op[t] = "connect_by_name" /\ r # "raise"
    THEN ByNameContinue(t, r)
    ELSE /\ ret' = [ret EXCEPT ![t] = r]
         /\ pc' = [pc EXCEPT ![t] = "done"]
         /\ UNCHANGED <<address, taskLocals>>

\* connect_persistent hands r ("true", "false" or "raise") to its caller:
\* connect_persistent_by_address (lines 393-401) answers with it,
\* connect_persistent_by_name goes on with its loop.
CPReturn(t, r) ==
    IF op[t] = "connect_by_name"
    THEN ByNameContinue(t, r)
    ELSE /\ ret' = [ret EXCEPT ![t] = r]
         /\ pc' = [pc EXCEPT ![t] = "done"]
         /\ UNCHANGED <<address, taskLocals>>

\* ------------------------------------------------------- connect_persistent
\* No fast path: connect whatever the state of the handle.
NeverAlreadyConnected(reg, cs, a) == FALSE

\* `if await self.is_connected(address)` (line 171).
AlreadyConnected(reg, cs, a) == IsConnected(reg, cs, a)

\* Lines 169-176, run by task t once it holds the lock of entry m: the
\* idempotent fast path, or the start of client.connect().
CPLocked(t, m, reg, cs) ==
    LET a == address[t] IN
    IF AlreadyConnected(reg, cs, a)
    THEN /\ conns' = Release(cs, m)
         /\ UNCHANGED connectCalls
         /\ CPReturn(t, "true")
    ELSE /\ conns' = cs
         /\ connectCalls' = [connectCalls EXCEPT ![a] = @ + 1]
         /\ pc' = [pc EXCEPT ![t] = "cp_connecting"]
         /\ UNCHANGED <<ret, address, taskLocals>>

\* Lines 160-169: fetch or create the entry under the registry lock, then
\* enter the device lock or queue up for it.
CPStart(t) ==
    /\ pc[t] = "cp_call"
    /\ global_lock = NoTask
    /\ LET a == address[t]
           found == Get(connections, a)
           m == IF found = NoEntry THEN Len(conns) + 1 ELSE found
           cs == IF found = NoEntry THEN Append(conns, NewManaged(a))
                 ELSE conns
           reg == IF found = NoEntry THEN [connections EXCEPT ![a] = m]
                  ELSE connections
       IN  /\ connections' = reg
           /\ managed' = [managed EXCEPT ![t] = m]
           /\ IF LockFree(cs[m])
              THEN CPLocked(t, m, reg, [cs EXCEPT ![m].holder = t])
              ELSE /\ conns' = [cs EXCEPT ![m].waiters = Append(@, t)]
                   /\ pc' = [pc EXCEPT ![t] = "cp_wait"]
                   /\ UNCHANGED <<ret, address, taskLocals, connectCalls>>
    /\ global_lock' = RegistryLockAfter(t)
    /\ UNCHANGED <<op, was, disconnectCalls, allLocals, streamVars>>

\* The device lock was handed to the waiting task t: it goes on at line 170.
CPResume(t) ==
    /\ pc[t] = "cp_wait"
    /\ conns[managed[t]].holder = t
    /\ global_lock = NoTask
    /\ CPLocked(t, managed[t], connections, conns)
    /\ global_lock' = RegistryLockAfter(t)
    /\ UNCHANGED <<connections, op, managed, was, disconnectCalls,
                   allLocals, streamVars>>

\* What client.connect() may do: connect, return without a live link, raise.
ConnectOutcome == {"ok", "not_live", "raise"}

\* Lines 176-184: client.connect() comes back.
CPConnectDone(t, outcome) ==
    /\ pc[t] = "cp_connecting"
    /\ global_lock = NoTask
    /\ LET a == address[t]
           m == managed[t]
           cs == [conns EXCEPT ![m].is_connected = (outcome = "ok")]
       IN  IF outcome = "raise"
           THEN /\ connections' = Pop(connections, a)
                /\ conns' = Release(cs, m)
                /\ CPReturn(t, "raise")
           ELSE /\ UNCHANGED connections
                /\ conns' = Release(cs, m)
                /\ CPReturn(t, IF IsConnected(connections, cs, a)
                               THEN "true" ELSE "false")
    /\ global_lock' = RegistryLockAfter(t)
    /\ UNCHANGED <<op, managed, was, connectCalls, disconnectCalls,
                   allLocals, streamVars>>

\* --------------------------------------------------------------- disconnect
\* What client.disconnect() may do.
DisconnectOutcome == {"ok", "raise"}

\* A failed client.disconnect() that skips the removal.
AfterDisconnectKeepsOnRaise(reg, a, outcome) ==
    IF outcome = "raise" THEN reg ELSE Pop(reg, a)

\* Lines 199-206: whatever client.disconnect() did, the entry is popped.
AfterDisconnect(reg, a, outcome) == Pop(reg, a)

\* An absent entry answered with an error (self._connections[address]).
AbsentRaises == "raise"

\* `if not managed: return False` (lines 194-195).
AbsentResult == "false"

\* disconnect hands r ("true" or "false") to disconnect_device (lines 411-416).
DReturn(t, r) ==
    /\ ret' = [ret EXCEPT ![t] = r]
    /\ pc' = [pc EXCEPT ![t] = "done"]

\* Lines 198-200, run by task t once it holds the lock of its entry for
\* address a: capture the state, start client.disconnect().
DLocked(t, a, reg, cs) ==
    /\ was' = [was EXCEPT ![t] = IsConnected(reg, cs, a)]
    /\ disconnectCalls' = [disconnectCalls EXCEPT ![a] = @ + 1]
    /\ pc' = [pc EXCEPT ![t] = "d_disconnecting"]
    /\ conns' = cs
    /\ UNCHANGED ret

\* Lines 191-200 of disconnect(a) when a is tracked: enter the device lock
\* of the entry or queue up for it.
DEnter(t, a, reg, cs) ==
    LET m == Get(reg, a) IN
    /\ address' = [address EXCEPT ![t] = a]
    /\ managed' = [managed EXCEPT ![t] = m]
    /\ IF LockFree(cs[m])
       THEN DLocked(t, a, reg, [cs EXCEPT ![m].holder = t])
       ELSE /\ conns' = [cs EXCEPT ![m].waiters = Append(@, t)]
            /\ pc' = [pc EXCEPT ![t] = "d_wait"]
            /\ UNCHANGED <<ret, was, disconnectCalls>>

\* A loop that gives up the remaining addresses.
DALoopStopsAfterFirst(t, snap, i, reg, cs) ==
    IF i = 0 /\ snap # <<>> /\ Get(reg, snap[1]) # NoEntry
    THEN /\ addr_idx' = [addr_idx EXCEPT ![t] = 1]
         /\ DEnter(t, snap[1], reg, cs)
    ELSE /\ addr_idx' = [addr_idx EXCEPT ![t] = Len(snap)]
         /\ ret' = [ret EXCEPT ![t] = "none"]
         /\ pc' = [pc EXCEPT ![t] = "done"]
         /\ conns' = cs
         /\ UNCHANGED <<address, managed, was, disconnectCalls>>

\* disconnect_all's `for a in addrs` (lines 213-217) with i iterations
\* begun, in registry state (reg, cs), up to its next suspension: disconnect
\* returns False at once for an address that is no longer tracked, and the
\* loop ends when the snapshot is used up.
DALoop(t, snap, i, reg, cs) ==
    LET tracked == {j \in (i + 1)..Len(snap) : Get(reg, snap[j]) # NoEntry}
    IN  IF tracked = {}
        THEN /\ addr_idx' = [addr_idx EXCEPT ![t] = Len(snap)]
             /\ ret' = [ret EXCEPT ![t] = "none"]
             /\ pc' = [pc EXCEPT ![t] = "done"]
             /\ conns' = cs
             /\ UNCHANGED <<address, managed, was, disconnectCalls>>
        ELSE LET j == CHOOSE k \in tracked : \A l \in tracked : k <= l IN
             /\ addr_idx' = [addr_idx EXCEPT ![t] = j]
             /\ DEnter(t, snap[j], reg, cs)

\* Lines 191-197: look the entry up; absent, return False; else enter the
\* device lock or queue up for it.
DStart(t) ==
    /\ pc[t] = "d_call"
    /\ global_lock = NoTask
    /\ IF Get(connections, address[t]) = NoEntry
       THEN /\ DReturn(t, AbsentResult)
            /\ UNCHANGED <<conns, address, managed, was, disconnectCalls>>
       ELSE DEnter(t, address[t], connections, conns)
    /\ global_lock' = RegistryLockAfter(t)
    /\ UNCHANGED <<connections, op, taskLocals, connectCalls, allLocals,
                   streamVars>>

\* The device lock was handed to the waiting task t: it goes on at line 198.
DResume(t) ==
    /\ pc[t] = "d_wait"
    /\ conns[managed[t]].holder = t
    /\ global_lock = NoTask
    /\ DLocked(t, address[t], connections, conns)
    /\ global_lock' = RegistryLockAfter(t)
    /\ UNCHANGED <<connections, op, address, managed, taskLocals,
                   connectCalls, allLocals, streamVars>>

\* Lines 200-208: client.disconnect() comes back or raises (the link is then
\* down or still up); the entry is popped and `was` returned, to
\* disconnect_device or to disconnect_all's loop, which goes on.
DDisconnectDone(t, outcome, still) ==
    /\ pc[t] = "d_disconnecting"
    /\ global_lock = NoTask
    /\ outcome = "ok" => ~still
    /\ LET m == managed[t]
           cs == [conns EXCEPT ![m].is_connected = @ /\ still]
           reg == AfterDisconnect(connections, address[t], outcome)
       IN  /\ connections' = reg
           /\ IF op[t] = "disconnect_all"
              THEN DALoop(t, addrs[t], addr_idx[t], reg, Release(cs, m))
              ELSE /\ conns' = Release(cs, m)
                   /\ DReturn(t, IF was[t] THEN "true" ELSE "false")
                   /\ UNCHANGED <<address, managed, was, disconnectCalls,
                                  addr_idx>>
    /\ global_lock' = RegistryLockAfter(t)
    /\ UNCHANGED <<op, taskLocals, connectCalls, addrs, quiet, streamVars>>

\* ---------------------------------------------------------------- requests
\* Requests are numbered in the order they arrive.
InArrivalOrder(t) == \A u \in Task : u < t => pc[u] # "idle"

\* POST /ble/connect/persistent/address (lines 383-401).
ConnectByAddress(t, a) ==
    /\ pc[t] = "idle"
    /\ InArrivalOrder(t)
    /\ op' = [op EXCEPT ![t] = "connect_by_address"]
    /\ address' = [address EXCEPT ![t] = a]
    /\ pc' = [pc EXCEPT ![t] = "cp_call"]
    /\ UNCHANGED <<connections, conns, global_lock, managed, was, ret,
                   taskLocals, connectCalls, disconnectCalls, allLocals,
                   streamVars>>

\* POST /ble/disconnect (lines 404-416).
DisconnectDevice(t, a) ==
    /\ pc[t] = "idle"
    /\ InArrivalOrder(t)
    /\ op' = [op EXCEPT ![t] = "disconnect"]
    /\ address' = [address EXCEPT ![t] = a]
    /\ pc' = [pc EXCEPT ![t] = "d_call"]
    /\ UNCHANGED <<connections, conns, global_lock, managed, was, ret,
                   taskLocals, connectCalls, disconnectCalls, allLocals,
                   streamVars>>

\* POST /ble/connect/persistent (lines 327-354): the scan hands back devs;
\* filter by name, rank, and turn to the first candidate.
ConnectByName(t, devs) ==
    /\ pc[t] = "idle"
    /\ InArrivalOrder(t)
    /\ op' = [op EXCEPT ![t] = "connect_by_name"]
    /\ devices' = [devices EXCEPT ![t] = devs]
    /\ LET ranked == SortByKey(NameMatches(devs)) IN
       /\ matches' = [matches EXCEPT ![t] = ranked]
       /\ IF ranked = <<>>
          THEN /\ response' = [response EXCEPT ![t] =
                      [kind |-> "not_found", address |-> NoEntry,
                       attempted |-> <<>>, errors |-> <<>>]]
               /\ pc' = [pc EXCEPT ![t] = "done"]
               /\ UNCHANGED <<address, attempted_addresses>>
          ELSE /\ address' = [address EXCEPT ![t] = ranked[1].address]
               /\ attempted_addresses' = [attempted_addresses EXCEPT ![t] =
                      <<ranked[1].address>>]
               /\ pc' = [pc EXCEPT ![t] = "cp_call"]
               /\ UNCHANGED response
    /\ UNCHANGED <<connections, conns, global_lock, managed, was, ret,
                   errors, connectCalls, disconnectCalls, allLocals,
                   streamVars>>

\* shutdown_event (lines 229-235) runs disconnect_all (lines 210-217): the
\* snapshot of the tracked addresses, then the loop up to its first
\* suspension.
DisconnectAll(t) ==
    /\ pc[t] = "idle"
    /\ InArrivalOrder(t)
    /\ global_lock = NoTask
    /\ op' = [op EXCEPT ![t] = "disconnect_all"]
    /\ LET snap == Keys(connections) IN
       /\ addrs' = [addrs EXCEPT ![t] = snap]
       /\ DALoop(t, snap, 0, connections, conns)
    /\ quiet' = [quiet EXCEPT ![t] =
           \A u \in Task : pc[u] \notin {"cp_call", "cp_wait", "cp_connecting"}]
    /\ global_lock' = RegistryLockAfter(t)
    /\ UNCHANGED <<connections, taskLocals, connectCalls, streamVars>>

\* ---------------------------------------------------------------- ws_ble_ppg
\* The raw windows struct.unpack("<64H", raw) may yield (line 527), with
\* WinLen samples for 64, and the one window read where only the course of
\* the session matters.
Windows == [1..WinLen -> Sample]
QuietWindows == {[i \in 1..WinLen |-> 0]}

\* The payloads of lines 535-541 and 551-557 (without the optional
\* `aggregated` field), and of lines 511 and 574.
SamplesMsg(new_samples, aggregated_len) ==
    [kind |-> "samples", new_samples |-> new_samples,
     aggregated_len |-> aggregated_len]
ErrorMsg(what) ==
    [kind |-> what, new_samples |-> <<>>, aggregated_len |-> 0]

\* hrs_analysis_tools.add_new_data(aggregated, last_arr, arr) (line 544),
\* by its contract: the aggregate so far, followed by the tail of the new
\* window that does not overlap the previous one; k is the length of that
\* tail, which the function decides.
AddNewData(agg, last, arr, k) ==
    agg \o SubSeq(arr, Len(arr) - k + 1, Len(arr))

\* A segment that reports the whole aggregate again.
NewSegmentWhole(agg, prev) == agg

\* A segment that starts one sample before the boundary marker.
NewSegmentOverlapsOne(agg, prev) == SubSeq(agg, prev, Len(agg))

\* new_segment = aggregated[prev_len:] (line 548).
NewSegment(agg, prev) == SubSeq(agg, prev + 1, Len(agg))

\* A first cycle that leaves the boundary marker at 0.
PrevLenLeftAtZero(agg) == 0

\* prev_len = len(aggregated) (lines 533 and 549).
PrevLen(agg) == Len(agg)

\* A check for an entry alone, live or not.
HasEntry(reg, cs, a) == Get(reg, a) # NoEntry

\* The precondition of lines 509-510: get_client returns a handle and
\* is_connected(address) is true.
HasLiveConnection(reg, cs, a) ==
    Get(reg, a) # NoEntry /\ IsConnected(reg, cs, a)

\* A loop that swallows the failure of a send and goes on.
AfterSendKeepsLooping(open) == "sleeping"

\* websocket.send_json (lines 535, 563) on an open transport is followed by
\* asyncio.sleep (line 566); on a closed one it raises, and the loop is left
\* through `except WebSocketDisconnect` (lines 568-570) or through
\* `except Exception` (lines 571-580), whose own send and close fail.
AfterSend(open) == IF open THEN "sleeping" ELSE "done"

\* A message handed to websocket.send_json reaches the peer if the
\* transport is open.
Deliver(msgs, open, msg) == IF open THEN Append(msgs, msg) ELSE msgs

\* The peer opens /ws/ble/ppg for address a; the handler awaits
\* websocket.accept() (line 507).
WSConnect(a) ==
    /\ ws_pc = "idle"
    /\ ws_pc' = "accepting"
    /\ ws_address' = a
    /\ ws_open' = TRUE
    /\ UNCHANGED <<connections, conns, global_lock, pc, op, address, managed,
                   was, ret, taskLocals, connectCalls, disconnectCalls,
                   allLocals, client, last_arr, aggregated, prev_len, sent,
                   reads, reads_at_close>>

\* Lines 509-526: fetch the handle, check the precondition; report its
\* failure and end, or start the first read_gatt_char.
WSAccepted ==
    /\ ws_pc = "accepting"
    /\ global_lock = NoTask
    /\ client' = Get(connections, ws_address)   \* the entry's handle
    /\ IF HasLiveConnection(connections, conns, ws_address)
       THEN /\ ws_pc' = "reading"
            /\ reads' = reads + 1
            /\ UNCHANGED sent
       ELSE /\ sent' = Deliver(sent, ws_open, ErrorMsg("no_connection"))
            /\ ws_pc' = "done"
            /\ UNCHANGED reads
    /\ UNCHANGED <<connections, conns, global_lock, pc, op, address, managed,
                   was, ret, taskLocals, connectCalls, disconnectCalls,
                   allLocals, ws_address, ws_open, last_arr, aggregated,
                   prev_len, reads_at_close>>

\* What read_gatt_char may do on the handle the session holds: it raises
\* on a handle whose link is down.
ReadOutcome == {"ok", "raise"}

\* Lines 526-566 and 568-580: read_gatt_char comes back with window arr or
\* raises; the window is folded into the aggregate (the merge appending k
\* samples), the payload is sent, and the session sleeps or ends.
WSReadDone(outcome, arr, k) ==
    /\ ws_pc = "reading"
    /\ outcome = "ok" => conns[client].is_connected
    /\ IF outcome = "raise"
       THEN /\ sent' = Deliver(sent, ws_open, ErrorMsg("exception"))
            /\ ws_pc' = "done"
            /\ UNCHANGED <<last_arr, aggregated, prev_len>>
       ELSE LET agg == IF last_arr = NoArr THEN arr
                       ELSE AddNewData(aggregated, last_arr, arr, k)
                new_samples == IF last_arr = NoArr THEN arr
                               ELSE NewSegment(agg, prev_len)
            IN  /\ last_arr' = arr
                /\ aggregated' = agg
                /\ prev_len' = PrevLen(agg)
                /\ sent' = Deliver(sent, ws_open,
                                   SamplesMsg(new_samples, Len(agg)))
                /\ ws_pc' = AfterSend(ws_open)
    /\ UNCHANGED <<connections, conns, global_lock, pc, op, address, managed,
                   was, ret, taskLocals, connectCalls, disconnectCalls,
                   allLocals, ws_address, ws_open, client, reads,
                   reads_at_close>>

\* asyncio.sleep(interval_s) is over (line 566): the next cycle's
\* read_gatt_char is issued on the handle fetched at line 509.
WSSleepDone ==
    /\ ws_pc = "sleeping"
    /\ reads < MaxCycles
    /\ ws_pc' = "reading"
    /\ reads' = reads + 1
    /\ UNCHANGED <<connections, conns, global_lock, pc, op, address, managed,
                   was, ret, taskLocals, connectCalls, disconnectCalls,
                   allLocals, ws_address, ws_open, client, last_arr,
                   aggregated, prev_len, sent, reads_at_close>>

\* The peer closes the transport of a running session.
WSClose ==
    /\ ws_pc \notin {"idle", "done"}
    /\ ws_open
    /\ ws_open' = FALSE
    /\ reads_at_close' = reads
    /\ UNCHANGED <<connections, conns, global_lock, pc, op, address, managed,
                   was, ret, taskLocals, connectCalls, disconnectCalls,
                   allLocals, ws_pc, ws_address, client, last_arr, aggregated,
                   prev_len, sent, reads>>

\* ------------------------------------------------------------ specifications
\* Registry requests alone: connect by address and disconnect, NumTasks of
\* them in flight.
Next ==
    \/ \E t \in Task, a \in Addr : ConnectByAddress(t, a)
    \/ \E t \in Task, a \in Addr : DisconnectDevice(t, a)
    \/ \E t \in Task : CPStart(t)
    \/ \E t \in Task : CPResume(t)
    \/ \E t \in Task, o \in ConnectOutcome : CPConnectDone(t, o)
    \/ \E t \in Task : DStart(t)
    \/ \E t \in Task : DResume(t)
    \/ \E t \in Task, o \in DisconnectOutcome, still \in BOOLEAN :
           DDisconnectDone(t, o, still)

Spec == Init /\ [][Next]_vars

\* N calls issued together (asyncio.gather): every call has run up to its
\* first suspension before any call returns.
NoneReturned == \A t \in Task : pc[t] # "done"

NextConcurrent ==
    \/ \E t \in Task, a \in Addr : NoneReturned /\ ConnectByAddress(t, a)
    \/ \E t \in Task : NoneReturned /\ CPStart(t)
    \/ \E t \in Task : CPResume(t)
    \/ \E t \in Task, o \in ConnectOutcome : CPConnectDone(t, o)

SpecConcurrent == Init /\ [][NextConcurrent]_vars

\* Connect by name: request 1 connects by name, the other requests are
\* registry requests served while it runs.
NextByName ==
    \/ pc[1] = "idle" /\ \E devs \in Scans : ConnectByName(1, devs)
    \/ \E t \in NameTask, a \in Addr : ConnectByAddress(t, a)
    \/ \E t \in NameTask, a \in Addr : DisconnectDevice(t, a)
    \/ \E t \in NameTask : CPStart(t)
    \/ \E t \in NameTask : CPResume(t)
    \/ \E t \in NameTask, o \in ConnectOutcome : CPConnectDone(t, o)
    \/ \E t \in NameTask : DStart(t)
    \/ \E t \in NameTask : DResume(t)
    \/ \E t \in NameTask, o \in DisconnectOutcome, still \in BOOLEAN :
           DDisconnectDone(t, o, still)

SpecByName == Init /\ [][NextByName]_vars

\* The ranking alone, on scan results of up to MaxRankScan devices.
NextRank ==
    pc[1] = "idle" /\ \E devs \in RankScans : ConnectByName(1, devs)

SpecRank == Init /\ [][NextRank]_vars

\* Shutdown: disconnect_all served among connects and disconnects.
NextShutdown ==
    \/ \E t \in Task, a \in Addr : ConnectByAddress(t, a)
    \/ \E t \in Task, a \in Addr : DisconnectDevice(t, a)
    \/ \E t \in Task : DisconnectAll(t)
    \/ \E t \in Task : CPStart(t)
    \/ \E t \in Task : CPResume(t)
    \/ \E t \in Task, o \in ConnectOutcome : CPConnectDone(t, o)
    \/ \E t \in Task : DStart(t)
    \/ \E t \in Task : DResume(t)
    \/ \E t \in Task, o \in DisconnectOutcome, still \in BOOLEAN :
           DDisconnectDone(t, o, still)

SpecShutdown == Init /\ [][NextShutdown]_vars

\* A streaming session served among registry requests; the windows read are
\* all alike and the merge appends a whole window.
NextStream ==
    \/ \E a \in Addr : WSConnect(a)
    \/ WSAccepted
    \/ \E o \in ReadOutcome, arr \in QuietWindows : WSReadDone(o, arr, WinLen)
    \/ WSSleepDone
    \/ WSClose
    \/ \E t \in StreamTask, a \in Addr : ConnectByAddress(t, a)
    \/ \E t \in StreamTask, a \in Addr : DisconnectDevice(t, a)
    \/ \E t \in StreamTask : CPStart(t)
    \/ \E t \in StreamTask : CPResume(t)
    \/ \E t \in StreamTask, o \in ConnectOutcome : CPConnectDone(t, o)
    \/ \E t \in StreamTask : DStart(t)
    \/ \E t \in StreamTask : DResume(t)
    \/ \E t \in StreamTask, o \in DisconnectOutcome, still \in BOOLEAN :
           DDisconnectDone(t, o, still)

SpecStream == Init /\ [][NextStream]_vars

\* The aggregation of a streaming session on the device at address 1, which
\* request 1 connects: every window and every merge.
NextAggregate ==
    \/ ConnectByAddress(1, 1)
    \/ CPStart(1)
    \/ \E o \in ConnectOutcome : CPConnectDone(1, o)
    \/ WSConnect(1)
    \/ WSAccepted
    \/ \E o \in ReadOutcome, arr \in Windows, k \in 0..WinLen :
           WSReadDone(o, arr, k)
    \/ WSSleepDone
    \/ WSClose

SpecAggregate == Init /\ [][NextAggregate]_vars

\* One run of task t between two suspension points.
TaskStep(t) ==
    \/ CPStart(t)
    \/ CPResume(t)
    \/ \E o \in ConnectOutcome : CPConnectDone(t, o)
    \/ DStart(t)
    \/ DResume(t)
    \/ \E o \in DisconnectOutcome, still \in BOOLEAN :
           DDisconnectDone(t, o, still)

NextLive ==
    \/ \E t \in LiveTask, a \in Addr : ConnectByAddress(t, a)
    \/ \E t \in LiveTask, a \in Addr : DisconnectDevice(t, a)
    \/ \E t \in LiveTask : DisconnectAll(t)
    \/ \E t \in LiveTask : TaskStep(t)

\* The event loop runs every task that is ready, and every radio call
\* comes back; requests need not arrive.
SpecLive ==
    Init /\ [][NextLive]_vars /\ \A t \in LiveTask : WF_vars(TaskStep(t))

\* ------------------------------------------------------------------ claims
InRadioCall(t) == pc[t] \in {"cp_connecting", "d_disconnecting"}
Waiting(t) == pc[t] \in {"cp_wait", "d_wait"}

\* C1 (as stated): N connect_persistent calls for one address, issued
\* together, make exactly one client.connect() call in total and all return
\* the same connected state.  Checked under SpecConcurrent.
C1_ExactlyOneConnect ==
    \A a \in Addr :
        LET calls == {t \in Task : pc[t] # "idle" /\ address[t] = a} IN
        (calls # {} /\ \A t \in calls : pc[t] = "done")
            => /\ connectCalls[a] = 1
               /\ \A t, u \in calls : ret[t] = ret[u]

\* C1 (what the code does guarantee, kept beside the claim): the calls make
\* between one and N client.connect() calls; if all of them returned true a
\* single client.connect() was made, and if a single one was made and a
\* call returned true, all did.
C1_OneConnectWhenFirstSucceeds ==
    \A a \in Addr :
        LET calls == {t \in Task : pc[t] # "idle" /\ address[t] = a} IN
        (calls # {} /\ \A t \in calls : pc[t] = "done")
            => /\ connectCalls[a] \in 1..Cardinality(calls)
               /\ (\A t \in calls : ret[t] = "true") => connectCalls[a] = 1
               /\ (connectCalls[a] = 1 /\ \E t \in calls : ret[t] = "true")
                      => \A t \in calls : ret[t] = "true"

\* The case in which C1 holds: every request was a connect to one address,
\* all have returned true, and client.connect() was called once.
C1_Witness ==
    \E a \in Addr :
        /\ \A t \in Task :
               pc[t] = "done" /\ address[t] = a /\ ret[t] = "true"
        /\ connectCalls[a] = 1

\* C2 (as stated): at most one call per address is inside client.connect()
\* or client.disconnect() at any time.
C2_OneInFlightPerAddress ==
    \A t, u \in Task :
        (t # u /\ InRadioCall(t) /\ InRadioCall(u))
            => address[t] # address[u]

\* C3: calls on different addresses are independent: a task waits only for
\* a device lock held by a call on its own address, and a call that is not
\* waiting for a device lock can always take its next step, whatever the
\* calls on other addresses are suspended in.
C3_DistinctAddressesIndependent ==
    \A t \in Task :
        /\ Waiting(t) =>
               LET h == conns[managed[t]].holder IN
               h # NoTask /\ address[h] = address[t]
        /\ pc[t] = "cp_call" => ENABLED CPStart(t)
        /\ pc[t] = "cp_connecting" => ENABLED CPConnectDone(t, "ok")

\* C3 witness: a connect on one address has returned true while a connect
\* on another address, requested earlier, is still inside client.connect().
C3_Witness ==
    \E t, u \in Task :
        /\ t < u /\ address[t] # address[u]
        /\ op[t] = "connect_by_address" /\ pc[t] = "cp_connecting"
        /\ op[u] = "connect_by_address" /\ pc[u] = "done"
        /\ ret[u] = "true"

\* C4: when client.connect() raises, connect_persistent raises to its caller
\* and the address is not tracked when it does.
C4_FailedConnectLeavesNoEntry ==
    [][\A t \in Task :
          CPConnectDone(t, "raise")
              => /\ ret'[t] = "raise"
                 /\ pc'[t] # "cp_connecting"
                 /\ connections'[address[t]] = NoEntry]_vars

\* C4 witness: a connect by address has raised and its address is untracked.
C4_Witness ==
    \E t \in Task :
        /\ op[t] = "connect_by_address" /\ pc[t] = "done"
        /\ ret[t] = "raise" /\ connections[address[t]] = NoEntry
        /\ connectCalls[address[t]] > 0

\* C5: disconnect on a tracked address removes the entry whether
\* client.disconnect() returns or raises, never raises itself, and returns
\* the connection state it captured before calling client.disconnect().
C5_DisconnectAlwaysRemoves ==
    [][\A t \in Task :
          /\ (pc[t] # "d_disconnecting" /\ pc'[t] = "d_disconnecting")
                 => was'[t] = IsConnected(connections, conns, address[t])
          /\ \A o \in DisconnectOutcome, still \in BOOLEAN :
                 DDisconnectDone(t, o, still)
                     => /\ connections'[address[t]] = NoEntry
                        /\ pc'[t] = "done"
                        /\ ret'[t] = (IF was[t] THEN "true" ELSE "false")]_vars

\* C5 witness: a disconnect whose client.disconnect() raised, leaving the
\* link up, has returned true and the address is untracked.
C5_Witness ==
    \E t \in Task :
        /\ op[t] = "disconnect" /\ pc[t] = "done" /\ ret[t] = "true"
        /\ connections[address[t]] = NoEntry
        /\ conns[managed[t]].is_connected

\* C6: connect_persistent on an address whose tracked handle is live, once
\* it holds the device lock, returns true, calls client.connect() for no
\* address, and leaves the set of tracked addresses as it was.
C6_FastPathIdempotent ==
    [][\A t \in Task :
          (/\ CPStart(t) \/ CPResume(t)
           /\ pc'[t] # "cp_wait"
           /\ IsConnected(connections, conns, address[t]))
              => /\ ret'[t] = "true"
                 /\ pc'[t] = "done"
                 /\ connectCalls' = connectCalls
                 /\ {a \in Addr : connections'[a] # NoEntry} = GetConnections
          ]_vars

\* C6 witness: two connects by address to one address have both returned
\* true on a single client.connect() call.
C6_Witness ==
    \E t, u \in Task :
        /\ t # u /\ address[t] = address[u]
        /\ op[t] = "connect_by_address" /\ op[u] = "connect_by_address"
        /\ pc[t] = "done" /\ pc[u] = "done"
        /\ ret[t] = "true" /\ ret[u] = "true"
        /\ connectCalls[address[t]] = 1

ByName(t) == op[t] = "connect_by_name"
Addresses(ds) == [i \in 1..Len(ds) |-> ds[i].address]
Strengths(ds) == [i \in 1..Len(ds) |-> ds[i].rssi]

\* C7: connect_persistent_by_name stops at the first candidate, in ranked
\* order, whose connect_persistent returns true: it answers at once with
\* that candidate's address, every candidate before it has failed, and the
\* number of attempts is the rank of the address returned.
C7_FirstSuccessWins ==
    \A t \in Task :
        ByName(t) =>
            LET n == Len(attempted_addresses[t]) IN
            /\ ret[t] = "true"
                   => pc[t] = "done" /\ response[t].kind = "success"
            /\ response[t].kind = "success"
                   => /\ ret[t] = "true"
                      /\ n \in 1..Len(matches[t])
                      /\ response[t].address = matches[t][n].address
                      /\ attempted_addresses[t]
                             = SubSeq(Addresses(matches[t]), 1, n)
                      /\ Len(errors[t]) = n - 1
                      /\ \A i \in 1..(n - 1) :
                             errors[t][i].address = matches[t][i].address

\* C7 witness: the request succeeded on its second candidate.
C7_Witness ==
    \E t \in Task :
        /\ ByName(t) /\ response[t].kind = "success"
        /\ Len(attempted_addresses[t]) = 2
        /\ response[t].address = matches[t][2].address

\* C8: in connect_persistent_by_name a raising candidate never ends the
\* request: its error is recorded and the next candidate is tried.  The
\* addresses attempted are a prefix of the ranked matches, each failed
\* attempt has its error entry, and the failure outcome is given only after
\* every match was attempted once, with all addresses in ranked order and
\* one error per address.
C8_ErrorsCapturedAllTried ==
    \A t \in Task :
        ByName(t) =>
            LET n == Len(attempted_addresses[t])
                all == Addresses(matches[t])
            IN  /\ n <= Len(all)
                /\ attempted_addresses[t] = SubSeq(all, 1, n)
                /\ response[t].kind \in {"none", "not_found", "success",
                                         "failed"}
                /\ pc[t] = "done" => response[t].kind # "none"
                /\ pc[t] # "done" => Len(errors[t]) = n - 1
                /\ \A i \in 1..Len(errors[t]) :
                       errors[t][i].address = all[i]
                /\ (ret[t] = "raise" /\ Len(errors[t]) > 0)
                       => errors[t][Len(errors[t])].kind = "exception"
                /\ response[t].kind = "failed"
                       => /\ pc[t] = "done"
                          /\ all # <<>>
                          /\ response[t].attempted = all
                          /\ attempted_addresses[t] = all
                          /\ response[t].errors = errors[t]
                          /\ Len(errors[t]) = Len(all)

\* C8 witness: both candidates were attempted after the first one raised,
\* and the request failed with both errors.
C8_Witness ==
    \E t \in Task :
        /\ ByName(t) /\ response[t].kind = "failed"
        /\ Len(response[t].attempted) = 2
        /\ Len(response[t].errors) = 2
        /\ response[t].errors[1].kind = "exception"

\* C9: the candidates are the matched devices ranked by signal strength,
\* strongest first, the devices of unknown strength behind all others and
\* in scan order among themselves; the first attempt goes to the first of
\* them.  Strengths [-40, -70, None, -55] are tried as [-40, -55, -70, None].
\* Checked under SpecRank, where a device's address is its scan position.
C9_RankedByStrength ==
    ByName(1) =>
        LET d == devices[1]
            m == matches[1]
            known(x) == x.rssi # NoRssi
        IN  /\ Len(m) = Cardinality({i \in 1..Len(d) : d[i].match})
            /\ {m[i] : i \in 1..Len(m)}
                   = {d[i] : i \in {j \in 1..Len(d) : d[j].match}}
            /\ \A i, j \in 1..Len(m) :
                   i < j =>
                       /\ known(m[j]) => known(m[i])
                       /\ (known(m[i]) /\ known(m[j]))
                              => m[i].rssi >= m[j].rssi
                       /\ (~known(m[i]) /\ ~known(m[j]))
                              => m[i].address < m[j].address
            /\ m # <<>> =>
                   /\ attempted_addresses[1] = <<m[1].address>>
                   /\ address[1] = m[1].address
            /\ (Strengths(d) = <<-40, -70, NoRssi, -55>>
                    /\ \A i \in 1..Len(d) : d[i].match)
                   => Strengths(m) = <<-40, -55, -70, NoRssi>>

\* C9 witness: the scan [-40, -70, None, -55] was ranked [-40, -55, -70, None].
C9_Witness ==
    /\ ByName(1)
    /\ Strengths(devices[1]) = <<-40, -70, NoRssi, -55>>
    /\ Strengths(matches[1]) = <<-40, -55, -70, NoRssi>>
    /\ Addresses(matches[1]) = <<1, 4, 2, 3>>

\* C10: disconnect on an untracked address returns False and changes
\* nothing: the registry and every handle stay as they were and
\* client.disconnect() is not called.
C10_DisconnectUntrackedNoOp ==
    [][\A t \in Task :
          (DStart(t) /\ connections[address[t]] = NoEntry)
              => /\ ret'[t] = "false"
                 /\ pc'[t] = "done"
                 /\ UNCHANGED <<connections, conns, disconnectCalls>>]_vars

\* C10 witness: a disconnect has returned False for an address that no
\* client.disconnect() call was ever made for.
C10_Witness ==
    \E t \in Task :
        /\ op[t] = "disconnect" /\ pc[t] = "done" /\ ret[t] = "false"
        /\ disconnectCalls[address[t]] = 0
        /\ connections[address[t]] = NoEntry

Closed == ws_pc # "idle" /\ ~ws_open
ErrorsSent == {i \in 1..Len(sent) : sent[i].kind # "samples"}

\* C11: once the peer has closed the transport of a running session, the
\* session ends within one cycle: it issues at most one more read, it is
\* over as soon as that read has come back, it never begins another sleep,
\* and no message, in particular no error payload, reaches the peer.
C11_CloseEndsSessionSilently ==
    Closed =>
        /\ reads <= reads_at_close + 1
        /\ reads = reads_at_close + 1 => ws_pc \in {"reading", "done"}
        /\ ws_pc \in {"accepting", "sleeping"} => reads = reads_at_close
        /\ ErrorsSent = {}
        /\ Len(sent) <= reads_at_close

\* C11 witness: a session that had delivered a sample message was closed
\* by its peer during the sleep and ended after one more read, and nothing
\* was sent after the closure.
C11_Witness ==
    /\ Closed /\ ws_pc = "done"
    /\ reads_at_close = 1 /\ reads = 2
    /\ Len(sent) = 1 /\ sent[1].kind = "samples"
    /\ Len(aggregated) = 2 * WinLen

\* C12: a session for an address that has no live persistent connection
\* (no entry, or an entry whose handle is not live) ends at once: the
\* precondition error is the only message sent, no read_gatt_char is
\* issued, and nothing happens in the session afterwards.
C12_NoLiveConnectionEndsSession ==
    [][/\ (WSAccepted /\ ~IsConnected(connections, conns, ws_address))
           => /\ ws_pc' = "done"
              /\ reads' = 0
              /\ sent' = IF ws_open THEN <<ErrorMsg("no_connection")>>
                        ELSE <<>>
       /\ ws_pc = "done" => UNCHANGED <<ws_pc, sent, reads>>]_vars

\* C12 witness: a session was refused on an address that is tracked but
\* whose handle is not live: one error message, no read.
C12_Witness ==
    /\ ws_pc = "done" /\ reads = 0
    /\ sent = <<ErrorMsg("no_connection")>>
    /\ connections[ws_address] # NoEntry
    /\ ~IsConnected(connections, conns, ws_address)

\* C13: the first cycle of a session, for every raw window W0 read: the
\* aggregated buffer is W0, the boundary marker is len(W0), and the payload
\* sent carries W0 as new samples and len(W0) as aggregated length.
C13_FirstCycleSeedsAggregate ==
    [][\A w \in Windows, k \in 0..WinLen :
          (WSReadDone("ok", w, k) /\ last_arr = NoArr)
              => /\ aggregated' = w
                 /\ last_arr' = w
                 /\ prev_len' = Len(w)
                 /\ ws_open => sent' = <<SamplesMsg(w, Len(w))>>]_vars

\* C13 witness: the first cycle read the window <<0, 1, ...>> and sent it.
C13_Witness ==
    /\ reads = 1 /\ ws_pc = "sleeping"
    /\ aggregated = [i \in 1..WinLen |-> IF i = 1 THEN 0 ELSE 1]
    /\ sent = <<SamplesMsg(aggregated, WinLen)>>
    /\ prev_len = WinLen

\* Python's s[-k:] for 0 < k <= len(s), and the empty list for k = 0.
LastK(seq, k) == SubSeq(seq, Len(seq) - k + 1, Len(seq))

\* C14: every cycle after the first: the new samples sent are the updated
\* aggregate from the old boundary marker to its end, the aggregated length
\* sent is its length, and the boundary marker advances to that length;
\* when the merge made the aggregate k samples longer, the new samples are
\* its last k elements.
C14_LaterCyclesSendSuffix ==
    [][\A w \in Windows, k \in 0..WinLen :
          (WSReadDone("ok", w, k) /\ last_arr # NoArr)
              => LET grown == Len(aggregated') - Len(aggregated)
                     msg == sent'[Len(sent')]
                 IN  /\ prev_len' = Len(aggregated')
                     /\ last_arr' = w
                     /\ ws_open =>
                            /\ Len(sent') = Len(sent) + 1
                            /\ msg.kind = "samples"
                            /\ msg.aggregated_len = Len(aggregated')
                            /\ msg.new_samples =
                                   SubSeq(aggregated', prev_len + 1,
                                          Len(aggregated'))
                            /\ grown >= 0 =>
                                   /\ Len(msg.new_samples) = grown
                                   /\ msg.new_samples
                                          = LastK(aggregated', grown)
          ]_vars

\* C14 witness: a second cycle whose merge appended one sample: the payload
\* carries that one sample, the last of the aggregate.
C14_Witness ==
    /\ reads = 2 /\ ws_pc = "sleeping" /\ Len(sent) = 2
    /\ Len(aggregated) = WinLen + 1
    /\ sent[2] = SamplesMsg(<<aggregated[WinLen + 1]>>, WinLen + 1)
    /\ sent[1] = SamplesMsg(SubSeq(aggregated, 1, WinLen), WinLen)
    /\ aggregated[WinLen] # aggregated[WinLen + 1]

\* C18 (as stated): after the peer has closed the transport, the session
\* issues no further read_gatt_char.
C18_NoReadAfterClose ==
    Closed => reads = reads_at_close

\* C19 (as stated): every read_gatt_char of a session is issued on the
\* handle that the registry entry of its address owns at that moment.
C19_ReadsThroughRegistryHandle ==
    [][(ws_pc # "reading" /\ ws_pc' = "reading")
          => /\ Get(connections', ws_address') # NoEntry
             /\ client' = Get(connections', ws_address')]_vars

All(t) == op[t] = "disconnect_all"
ConnectInFlight(t) == pc[t] \in {"cp_call", "cp_wait", "cp_connecting"}

\* C15: disconnect_all disconnects every address of its snapshot: whatever
\* client.disconnect() did for one address (returned or raised), the loop
\* goes on to the next address of the snapshot that is still tracked, and
\* it returns only when none of the remaining ones is; when no
\* connect_persistent call ran beside it, the registry is empty when it
\* returns.
C15_DisconnectAllCoversSnapshot ==
    [][\A t \in Task :
          LET i == addr_idx'[t]
              snap == addrs'[t]
              skipped(lo, hi) ==
                  \A j \in (lo + 1)..hi : connections'[snap[j]] = NoEntry
          IN
          /\ (All(t) /\ \E o \in DisconnectOutcome, still \in BOOLEAN :
                            DDisconnectDone(t, o, still))
                 => /\ connections'[address[t]] = NoEntry
                    /\ i > addr_idx[t] \/ pc'[t] = "done"
                    /\ pc'[t] # "done"
                           => /\ address'[t] = snap[i]
                              /\ skipped(addr_idx[t], i - 1)
                              /\ pc'[t] \in {"d_wait", "d_disconnecting"}
          /\ (op'[t] = "disconnect_all" /\ pc[t] # "done" /\ pc'[t] = "done")
                 => /\ i = Len(snap)
                    /\ skipped(addr_idx[t], Len(snap))
                    /\ (quiet'[t] /\ \A u \in Task :
                                         u > t => ~ConnectInFlight(u)
                                                  /\ op[u] # "connect_by_address")
                           => \A a \in Addr : connections'[a] = NoEntry
          ]_vars

\* C15 witness: disconnect_all has returned after a snapshot of two
\* addresses, no connect ran beside it, the registry is empty, and
\* client.disconnect() raised for one address, leaving its link up, after
\* which the other address was disconnected.
C15_Witness ==
    \E t \in Task :
        /\ All(t) /\ pc[t] = "done" /\ quiet[t]
        /\ Len(addrs[t]) = 2
        /\ \A a \in Addr : connections[a] = NoEntry
        /\ \A j \in 1..2 : disconnectCalls[addrs[t][j]] = 1
        /\ \E m \in 1..Len(conns) :
               conns[m].address = addrs[t][1] /\ conns[m].is_connected
        /\ \A m \in 1..Len(conns) :
               conns[m].address = addrs[t][2] => ~conns[m].is_connected

\* C16 (as stated): when client.connect() returns but the handle is not
\* live, connect_persistent returns False and the address is no longer
\* tracked.
C16_NotLiveConnectUntracks ==
    [][\A t \in Task :
          CPConnectDone(t, "not_live")
              => /\ ret'[t] = "false"
                 /\ connections'[address[t]] = NoEntry]_vars

\* C17: no task holds the registry lock while it is suspended in
\* client.connect() or client.disconnect(), or while it waits for a device
\* lock: the registry lock is free whenever a call is suspended.
C17_RegistryLockNeverAcrossRadioCall ==
    \A t \in Task :
        (InRadioCall(t) \/ Waiting(t)) => global_lock = NoTask

\* C17 witness: a disconnect is inside client.disconnect() on the entry a
\* returned connect created, having fetched it under the registry lock,
\* while a second connect waits for the device lock; the registry lock is
\* free.
C17_Witness ==
    \E t, u, v \in Task :
        /\ op[t] = "connect_by_address" /\ pc[t] = "done"
        /\ pc[u] = "d_disconnecting" /\ managed[u] = managed[t]
        /\ pc[v] = "cp_wait" /\ managed[v] = managed[u]
        /\ global_lock = NoTask

Quiescent == \A t \in Task : pc[t] \in {"idle", "done"}

\* C20: every connect_persistent, disconnect and disconnect_all call that
\* was begun returns (or raises); a held device lock always belongs to a
\* call that is still running on that entry, and once every call has
\* returned the registry lock and every device lock are free.
C20_EveryCallReturnsLocksFree ==
    /\ \A t \in LiveTask : (pc[t] # "idle") ~> (pc[t] = "done")
    /\ [](\A m \in 1..Len(conns) :
             LET h == conns[m].holder IN
             h # NoTask => pc[h] \notin {"idle", "done"} /\ managed[h] = m)
    /\ [](Quiescent =>
             /\ global_lock = NoTask
             /\ \A m \in 1..Len(conns) : LockFree(conns[m]))

\* C20 witness: two calls have returned: a connect that raised and a
\* connect to the same address that had waited for its device lock and
\* then made the second client.connect(); every lock is free.
C20_Witness ==
    /\ \A t \in LiveTask : pc[t] = "done"
    /\ \E t, u \in LiveTask :
           /\ ret[t] = "raise" /\ ret[u] # "raise"
           /\ address[t] = address[u] /\ managed[t] = managed[u]
           /\ connectCalls[address[t]] = 2
    /\ global_lock = NoTask
    /\ \A m \in 1..Len(conns) : LockFree(conns[m])

\* A registry call for address a is in progress.
InFlightFor(a) ==
    \E t \in Task : pc[t] \notin {"idle", "done"} /\ address[t] = a

\* C21 (as stated): while no connect or disconnect is in flight for an
\* address, a handle for it whose link is up, and on which no disconnect
\* was ever called, is the handle of the registry entry of that address.
C21_NoLiveHandleOutsideRegistry ==
    \A m \in 1..Len(conns) :
        LET a == conns[m].address IN
        (conns[m].is_connected /\ ~InFlightFor(a) /\ disconnectCalls[a] = 0)
            => connections[a] = m

\* C22 (as stated): the entry a failing connect_persistent or a disconnect
\* removes from the registry is the entry whose device lock the call holds:
\* it never removes an entry another call created for the address.
C22_CleanupRemovesOwnEntry ==
    [][\A t \in Task :
          (\/ CPConnectDone(t, "raise")
           \/ \E o \in DisconnectOutcome, still \in BOOLEAN :
                  DDisconnectDone(t, o, still))
              => \/ connections[address[t]] = NoEntry
                 \/ /\ connections[address[t]] = managed[t]
                    /\ conns[managed[t]].holder = t]_vars

RECURSIVE NewSamplesOf(_)
\* The new_samples of the sample payloads in msgs, one after the other.
NewSamplesOf(msgs) ==
    IF msgs = <<>> THEN <<>>
    ELSE NewSamplesOf(SubSeq(msgs, 1, Len(msgs) - 1))
             \o msgs[Len(msgs)].new_samples

\* C23: with a merge that only appends, after every completed cycle (the
\* payload was sent and the session sleeps) the boundary marker is the
\* aggregated length, the aggregated lengths sent never decrease and the
\* last one is the length of the buffer, and the new samples sent so far,
\* one after the other, are the aggregated buffer.
C23_SegmentsTileAggregate ==
    ws_pc = "sleeping" =>
        /\ prev_len = Len(aggregated)
        /\ Len(sent) = reads
        /\ \A i \in 1..Len(sent) : sent[i].kind = "samples"
        /\ \A i, j \in 1..Len(sent) :
               i < j => sent[i].aggregated_len <= sent[j].aggregated_len
        /\ sent[Len(sent)].aggregated_len = Len(aggregated)
        /\ NewSamplesOf(sent) = aggregated

\* C23 witness: three cycles, the merges appending one sample and then
\* none: the three segments sent have WinLen, 1 and 0 samples and make up
\* the buffer, which has both sample values in its first window.
C23_Witness ==
    /\ ws_pc = "sleeping" /\ reads = 3 /\ Len(sent) = 3
    /\ Len(sent[1].new_samples) = WinLen
    /\ Len(sent[2].new_samples) = 1
    /\ sent[3].new_samples = <<>>
    /\ Len(aggregated) = WinLen + 1
    /\ aggregated[1] # aggregated[2]
    /\ NewSamplesOf(sent) = aggregated

====
